---- MODULE Spec2Model ----
(***************************************************************************)
(* Model of the GitHub OAuth2 (authorization code + PKCE) endpoints of     *)
(* src/oauth/github.rs: route registration (github_config), the            *)
(* authorization initiator (auth), the callback handler (callback) and the *)
(* profile fetch adapter (get_user_info_from_github).                      *)
(*                                                                         *)
(* Every request is an independently scheduled task; a handler is split    *)
(* into one action per .await, so that requests interleave at exactly the  *)
(* suspension points of the code.  The Redis store, the provider's token   *)
(* endpoint and the provider's profile endpoint are external: the result   *)
(* of each call is drawn from the outcomes its client library can return.  *)
(***************************************************************************)
EXTENDS Integers, Sequences, FiniteSets, TLC

VARIABLES
    env,        \* process environment read by github_config
    cfg,        \* outcome of github_config: phase and registered routes
    store,      \* the Redis key space: key -> value, Nil when absent
    issuedCsrf, \* CSRF tokens CsrfToken::new_random has returned so far
    issuedPkce, \* PKCE verifiers new_random_sha256 has returned so far
    nreq,       \* number of requests received so far
    req,        \* per request: the handler's locals and its position
    resp,       \* per request: the HTTP response, NoResp while pending
    trace,      \* per request: the callback states entered, in order
    setCalls,   \* redis SET commands issued        (request, key, value)
    getCalls,   \* redis GET commands issued        (request, key)
    exchanges,  \* token-exchange requests issued   (request, code, verifier)
    fetches,    \* profile-endpoint requests issued (request, authorization)
    calls,      \* per request: how many times each external call was made
    conns       \* per caller of get_conn: its position and what it got

vars == <<env, cfg, store, issuedCsrf, issuedPkce, nreq, req, resp, trace,
          setCalls, getCalls, exchanges, fetches, calls, conns>>

---------------------------------------------------------------------------
(* Bounds *)

MaxReqs == 3
NumSecrets == 2
MaxCallers == 3
PoolSize == 2

(* Program constants *)

GITHUB_CALLBACK_PATH == "/auth/github/callback"
GITHUB_AUTH_URL == "https://github.com/login/oauth/authorize"
GITHUB_TOKEN_URL == "https://github.com/login/oauth/access_token"
GITHUB_USER_API_URL == "https://api.github.com/user"
HOST_URL == "https://host"
\* The path prefix under which the routes of github_config are mounted.
MOUNT_PREFIX == ""
SCOPE_PREFIX == "/github"
AUTH_ROUTE == MOUNT_PREFIX \o SCOPE_PREFIX \o "/auth"
CALLBACK_ROUTE == MOUNT_PREFIX \o SCOPE_PREFIX \o "/callback"

---------------------------------------------------------------------------
(* Value domains *)

Nil == "nil"
ReqIds == 1..MaxReqs

\* The values the two random generators can return.
CsrfTokens == {"t" \o ToString(i) : i \in 1..NumSecrets}
PkceVerifiers == {"v" \o ToString(i) : i \in 1..NumSecrets}

\* A state token no auth request ever generated (forged or expired).
ForgedToken == "t0"
StateTokens == CsrfTokens \cup {ForgedToken}
AuthCodes == {"code1"}
AccessTokens == {"gho1"}

\* BasicTokenType: Bearer, Mac, Extension(_)
TokenTypes == {"bearer", "mac", "extension"}

\* Statuses the profile endpoint answers with.
OK == 200
UNAUTHORIZED == 401
ProviderStatuses == {OK, UNAUTHORIZED, 403, 500}

\* Error values of the handlers (super::Error).
ErrRedis == "RedisError"
ErrToken == "RequestTokenError"
ErrAuthentication == "Authentication"
ErrUnsupported == "Other: Unsupported token type"
ErrGetUser == "Other: Failed to get user info from Github"
ErrParseUser == "Other: Failed to parse user info from Github"

NoUrl == <<>>
NoResp == [status |-> "", location |-> NoUrl, csrf |-> "", error |-> ""]
NoReq == [kind |-> "none", pc |-> "none", path |-> "", state |-> "",
          code |-> "",
          verifier |-> "", url |-> NoUrl, set |-> "", lookup |-> "",
          exchange |-> "", token_type |-> "", access_token |-> "",
          fetch_status |-> 0, fetch_body |-> "", profile |-> ""]
NoCalls == [set |-> 0, get |-> 0, exchange |-> 0, fetch |-> 0]

\* The callers of get_conn, and a caller that has not called yet.
Callers == 1..MaxCallers
NoConn == [pc |-> "none", block |-> "", checkout |-> "", ok |-> FALSE,
           error |-> ""]

\* Error values of get_conn (ServiceError), by what they were converted from.
ErrBlocking == "BlockingError"
ErrPool == "r2d2::Error"

---------------------------------------------------------------------------
(* Pure helpers *)

\* PkceCodeChallenge::new_random_sha256: the challenge paired with a verifier.
pkce_challenge(verifier) == "S256(" \o verifier \o ")"

\* RedirectUrl::new(HOST_URL.to_string() + GITHUB_CALLBACK_PATH)
redirect_url == HOST_URL \o GITHUB_CALLBACK_PATH

\* authorize_url with a state parameter other than the returned CSRF token.
authorize_url_other_state(csrf, challenge) ==
    << <<"endpoint", GITHUB_AUTH_URL>>,
       <<"response_type", "code">>,
       <<"client_id", "GITHUB_CLIENT_ID">>,
       <<"state", challenge>>,
       <<"code_challenge", challenge>>,
       <<"code_challenge_method", "S256">>,
       <<"redirect_uri", redirect_url>>,
       <<"scope", "public_repo user:email">> >>

\* The path of a URL of this host: what follows the host base URL.
url_path(url) == SubSeq(url, Len(HOST_URL) + 1, Len(url))

\* The paths requests are made to: the two routes of the feature and the
\* path of the redirect URI the provider sends the user agent back to.
RequestPaths == {AUTH_ROUTE, CALLBACK_ROUTE, url_path(redirect_url)}

\* github.authorize_url(..).add_scope(..).add_scope(..)
\*       .set_pkce_challenge(..).url(): the URL as its endpoint followed by
\* its query pairs, and the CSRF token it embeds.
authorize_url(csrf, challenge) ==
    << <<"endpoint", GITHUB_AUTH_URL>>,
       <<"response_type", "code">>,
       <<"client_id", "GITHUB_CLIENT_ID">>,
       <<"state", csrf>>,
       <<"code_challenge", challenge>>,
       <<"code_challenge_method", "S256">>,
       <<"redirect_uri", redirect_url>>,
       <<"scope", "public_repo user:email">> >>

\* The value of query parameter key of url, Nil when the URL has none.
RECURSIVE QueryParam(_, _)
QueryParam(url, key) ==
    IF url = <<>> THEN Nil
    ELSE IF Head(url)[1] = key THEN Head(url)[2]
    ELSE QueryParam(Tail(url), key)

\* redis_set with one constant key used for every attempt.
redis_set_shared_key(s, key, value) == [s EXCEPT !["t1"] = value]

\* redis.set::<_, _, ()>(key, value): the key space after the command.
redis_set(s, key, value) == [s EXCEPT ![key] = value]

\* redis_get with the nil reply of a missing key read as the empty string.
redis_get_nil_as_empty(s, key, reachable) ==
    IF ~reachable THEN [ok |-> FALSE, value |-> ""]
    ELSE IF s[key] = Nil THEN [ok |-> TRUE, value |-> ""]
    ELSE [ok |-> TRUE, value |-> s[key]]

\* redis.get(key) converted to String: a connection failure is an error,
\* and so is the nil reply of a missing key (nil does not convert to String).
redis_get(s, key, reachable) ==
    IF ~reachable THEN [ok |-> FALSE, value |-> ""]
    ELSE IF s[key] = Nil THEN [ok |-> FALSE, value |-> ""]
    ELSE [ok |-> TRUE, value |-> s[key]]

\* is_bearer with the MAC token type let through as well.
is_bearer_or_mac(token_type) == token_type \in {"bearer", "mac"}

\* match token.token_type() { BasicTokenType::Bearer => .., _ => .. }
is_bearer(token_type) == token_type = "bearer"

\* format!("Bearer {}", token.access_token().secret())
authorization_header(access_token) == "Bearer " \o access_token

\* profile_error without the arm for 401.
profile_error_no_401_arm(status, parseable) ==
    IF status = OK
    THEN IF parseable THEN "" ELSE ErrParseUser
    ELSE ErrGetUser

\* match response.status() followed by response.json::<GitHubUser>():
\* the error of the profile fetch, "" when it yields the user profile.
profile_error(status, parseable) ==
    IF status = OK
    THEN IF parseable THEN "" ELSE ErrParseUser
    ELSE IF status = UNAUTHORIZED THEN ErrAuthentication
    ELSE ErrGetUser

\* The HTTP response an Err(e) of a handler is turned into.
error_response(e) ==
    [status |-> "error", location |-> NoUrl, csrf |-> "", error |-> e]

\* HttpResponse::Ok().finish()
ok_response == [status |-> "200", location |-> NoUrl, csrf |-> "", error |-> ""]

\* HttpResponse::SeeOther().append_header(("Location", ..))
\*     .append_header(("X-CSRF-Token", ..)).finish()
see_other_response(url, csrf) ==
    [status |-> "303", location |-> url, csrf |-> csrf, error |-> ""]

\* The router's answer for a path no route is registered at.
not_found_response ==
    [status |-> "404", location |-> NoUrl, csrf |-> "", error |-> ""]

\* csrf_new_random with a generator that can return a value again.
csrf_new_random_repeating(issued) == CsrfTokens

\* CsrfToken::new_random: the values a call can return, given the ones
\* returned before (a 128-bit random value does not repeat).
csrf_new_random(issued) == CsrfTokens \ issued

\* PkceCodeChallenge::new_random_sha256: the verifiers a call can return.
pkce_new_random(issued) == PkceVerifiers \ issued

\* credentials_missing with && in place of ||.
credentials_missing_both(e) == ~e.client_id /\ ~e.client_secret

\* if client_id.is_err() || client_secret.is_err()
credentials_missing(e) == ~e.client_id \/ ~e.client_secret

\* callback_result with the result of the profile fetch discarded.
callback_result_discarded(e) == ok_response

\* callback, lines 140-142: the error of get_user_info_from_github leaves
\* through ?, otherwise the handler answers Ok(HttpResponse::Ok()).
callback_result(e) == IF e = "" THEN ok_response ELSE error_response(e)

\* auth_response with the result of the SET propagated instead of discarded.
auth_response_propagating(url, csrf, set_ok) ==
    IF set_ok THEN see_other_response(url, csrf)
    ELSE error_response(ErrRedis)

\* auth, lines 118-123: the response built after the SET returned, whatever
\* its result was.
auth_response(url, csrf, set_ok) == see_other_response(url, csrf)

---------------------------------------------------------------------------
(* Initial state: the process before github_config runs. *)

Init ==
    /\ env \in [client_id : BOOLEAN, client_secret : BOOLEAN,
                 host_url_ok : BOOLEAN]
    /\ cfg = [phase |-> "init", routes |-> {}]
    /\ store = [k \in StateTokens |-> Nil]
    /\ issuedCsrf = {}
    /\ issuedPkce = {}
    /\ nreq = 0
    /\ req = [r \in ReqIds |-> NoReq]
    /\ resp = [r \in ReqIds |-> NoResp]
    /\ trace = [r \in ReqIds |-> <<>>]
    /\ setCalls = {}
    /\ getCalls = {}
    /\ exchanges = {}
    /\ fetches = {}
    /\ calls = [r \in ReqIds |-> NoCalls]
    /\ conns = [c \in Callers |-> NoConn]

---------------------------------------------------------------------------
(* Route registration *)

\* github_config: without both credentials it logs and returns with nothing
\* registered; otherwise it builds the client (the unwrap of the redirect
\* URL panics on an unparseable HOST_URL) and registers the two routes.
github_config ==
    /\ cfg.phase = "init"
    /\ cfg' = IF credentials_missing(env)
                 THEN [phase |-> "returned", routes |-> {}]
              ELSE IF ~env.host_url_ok
                 THEN [phase |-> "panicked", routes |-> {}]
              ELSE [phase |-> "returned",
                    routes |-> {AUTH_ROUTE, CALLBACK_ROUTE}]
    /\ UNCHANGED <<conns, env, store, issuedCsrf, issuedPkce, nreq, req, resp,
                   trace, setCalls, getCalls, exchanges, fetches, calls>>

\* A GET for a path no route is registered at: a path of this feature
\* while it is disabled, or any path github_config registered no route for.
NotFound(path) ==
    /\ cfg.phase = "returned"
    /\ nreq < MaxReqs
    /\ path \notin cfg.routes
    /\ LET r == nreq + 1 IN
         /\ nreq' = r
         /\ req' = [req EXCEPT ![r] = [NoReq EXCEPT !.kind = "unrouted",
                                                     !.pc = "done",
                                                     !.path = path]]
         /\ resp' = [resp EXCEPT ![r] = not_found_response]
    /\ UNCHANGED <<conns, env, cfg, store, issuedCsrf, issuedPkce, trace,
                   setCalls, getCalls, exchanges, fetches, calls>>

---------------------------------------------------------------------------
(* auth *)

\* AuthBegin with the SET spawned and not awaited: the response is built
\* while the write is still in flight.
AuthBegin_not_awaiting ==
    /\ cfg.phase = "returned"
    /\ AUTH_ROUTE \in cfg.routes
    /\ nreq < MaxReqs
    /\ \E verifier \in pkce_new_random(issuedPkce),
          csrf \in csrf_new_random(issuedCsrf) :
         LET r == nreq + 1
             url == authorize_url(csrf, pkce_challenge(verifier))
         IN
         /\ nreq' = r
         /\ issuedPkce' = issuedPkce \cup {verifier}
         /\ issuedCsrf' = issuedCsrf \cup {csrf}
         /\ req' = [req EXCEPT ![r] = [NoReq EXCEPT !.kind = "auth",
                                                     !.pc = "set",
                                                     !.path = AUTH_ROUTE,
                                                     !.state = csrf,
                                                     !.verifier = verifier,
                                                     !.url = url]]
         /\ resp' = [resp EXCEPT ![r] = see_other_response(url, csrf)]
         /\ setCalls' = setCalls \cup
                {[req |-> r, key |-> csrf, value |-> verifier]}
         /\ calls' = [calls EXCEPT ![r].set = @ + 1]
    /\ UNCHANGED <<conns, env, cfg, store, trace, getCalls, exchanges, fetches>>

\* auth up to the .await of redis.set: generate the PKCE pair and the CSRF
\* token, build the authorization URL and issue the SET.
AuthBegin ==
    /\ cfg.phase = "returned"
    /\ AUTH_ROUTE \in cfg.routes
    /\ nreq < MaxReqs
    /\ \E verifier \in pkce_new_random(issuedPkce),
          csrf \in csrf_new_random(issuedCsrf) :
         LET r == nreq + 1
             url == authorize_url(csrf, pkce_challenge(verifier))
         IN
         /\ nreq' = r
         /\ issuedPkce' = issuedPkce \cup {verifier}
         /\ issuedCsrf' = issuedCsrf \cup {csrf}
         /\ req' = [req EXCEPT ![r] = [NoReq EXCEPT !.kind = "auth",
                                                     !.pc = "set",
                                                     !.path = AUTH_ROUTE,
                                                     !.state = csrf,
                                                     !.verifier = verifier,
                                                     !.url = url]]
         /\ setCalls' = setCalls \cup
                {[req |-> r, key |-> csrf, value |-> verifier]}
         /\ calls' = [calls EXCEPT ![r].set = @ + 1]
    /\ UNCHANGED <<conns, env, cfg, store, resp, trace, getCalls, exchanges,
                   fetches>>

\* AuthSetReturn with a failed SET issued a second time.
AuthSetReturn_retrying(r, ok) ==
    /\ req[r].kind = "auth"
    /\ req[r].pc = "set"
    /\ IF ~ok /\ calls[r].set < 2
       THEN /\ calls' = [calls EXCEPT ![r].set = @ + 1]
            /\ UNCHANGED <<store, req, resp>>
       ELSE /\ store' = IF ok THEN redis_set(store, req[r].state,
                                             req[r].verifier)
                        ELSE store
            /\ req' = [req EXCEPT ![r].pc = "done",
                                  ![r].set = IF ok THEN "ok" ELSE "err"]
            /\ resp' = [resp EXCEPT ![r] =
                            auth_response(req[r].url, req[r].state, ok)]
            /\ UNCHANGED calls
    /\ UNCHANGED <<conns, env, cfg, issuedCsrf, issuedPkce, nreq, trace, setCalls,
                   getCalls, exchanges, fetches>>

\* auth from the return of redis.set: the result is discarded (let _ =) and
\* the 303 response is built.  A failed SET leaves the key space as it was.
AuthSetReturn(r, ok) ==
    /\ req[r].kind = "auth"
    /\ req[r].pc = "set"
    /\ store' = IF ok THEN redis_set(store, req[r].state, req[r].verifier)
                ELSE store
    /\ req' = [req EXCEPT ![r].pc = "done",
                          ![r].set = IF ok THEN "ok" ELSE "err"]
    /\ resp' = [resp EXCEPT ![r] =
                    auth_response(req[r].url, req[r].state, ok)]
    /\ UNCHANGED <<conns, env, cfg, issuedCsrf, issuedPkce, nreq, trace, setCalls,
                   getCalls, exchanges, fetches, calls>>

---------------------------------------------------------------------------
(* callback *)

\* The replies of the provider's token endpoint: an error, or a token
\* response carrying an access token and its type.
ExchangeReplies ==
    {[ok |-> FALSE, token_type |-> "", access_token |-> ""]} \cup
    [ok : {TRUE}, token_type : TokenTypes, access_token : AccessTokens]

\* The outcomes of the GET on the profile endpoint: the send fails, or a
\* response arrives; its body is read only under status 200.
FetchReplies ==
    {[sent |-> FALSE, status |-> 0, body |-> ""]} \cup
    {[sent |-> TRUE, status |-> st, body |-> b] :
        <<st, b>> \in ({OK} \X {"parseable", "malformed"}) \cup
                      ((ProviderStatuses \ {OK}) \X {"unread"})}

\* callback up to the .await of redis.get: take the query and issue the GET.
CallbackBegin(state, code) ==
    /\ cfg.phase = "returned"
    /\ CALLBACK_ROUTE \in cfg.routes
    /\ nreq < MaxReqs
    /\ LET r == nreq + 1 IN
         /\ nreq' = r
         /\ req' = [req EXCEPT ![r] = [NoReq EXCEPT !.kind = "callback",
                                                     !.pc = "get",
                                                     !.path = CALLBACK_ROUTE,
                                                     !.state = state,
                                                     !.code = code]]
         /\ trace' = [trace EXCEPT ![r] = <<"Start", "VerifierLookup">>]
         /\ getCalls' = getCalls \cup {[req |-> r, key |-> state]}
         /\ calls' = [calls EXCEPT ![r].get = @ + 1]
    /\ UNCHANGED <<conns, env, cfg, store, issuedCsrf, issuedPkce, resp, setCalls,
                   exchanges, fetches>>

\* CallbackGetReturn with the verifier deleted from the store when read.
CallbackGetReturn_deleting(r, reachable) ==
    /\ req[r].kind = "callback"
    /\ req[r].pc = "get"
    /\ LET res == redis_get(store, req[r].state, reachable) IN
         IF res.ok
         THEN /\ req' = [req EXCEPT ![r].pc = "exchange",
                                    ![r].lookup = "found",
                                    ![r].verifier = res.value]
              /\ store' = [store EXCEPT ![req[r].state] = Nil]
              /\ trace' = [trace EXCEPT ![r] = Append(@, "TokenExchange")]
              /\ exchanges' = exchanges \cup
                     {[req |-> r, url |-> GITHUB_TOKEN_URL,
                       code |-> req[r].code, verifier |-> res.value]}
              /\ calls' = [calls EXCEPT ![r].exchange = @ + 1]
              /\ UNCHANGED resp
         ELSE /\ req' = [req EXCEPT ![r].pc = "done",
                                    ![r].lookup = "not_found"]
              /\ resp' = [resp EXCEPT ![r] = error_response(ErrRedis)]
              /\ UNCHANGED <<store, trace, exchanges, calls>>
    /\ UNCHANGED <<conns, env, cfg, issuedCsrf, issuedPkce, nreq, setCalls,
                   getCalls, fetches>>

\* callback from the return of redis.get: an error leaves through ?, a
\* value becomes the PKCE verifier of the token-exchange request.
CallbackGetReturn(r, reachable) ==
    /\ req[r].kind = "callback"
    /\ req[r].pc = "get"
    /\ LET res == redis_get(store, req[r].state, reachable) IN
         IF res.ok
         THEN /\ req' = [req EXCEPT ![r].pc = "exchange",
                                    ![r].lookup = "found",
                                    ![r].verifier = res.value]
              /\ trace' = [trace EXCEPT ![r] = Append(@, "TokenExchange")]
              /\ exchanges' = exchanges \cup
                     {[req |-> r, url |-> GITHUB_TOKEN_URL,
                       code |-> req[r].code, verifier |-> res.value]}
              /\ calls' = [calls EXCEPT ![r].exchange = @ + 1]
              /\ UNCHANGED resp
         ELSE /\ req' = [req EXCEPT ![r].pc = "done",
                                    ![r].lookup = "not_found"]
              /\ resp' = [resp EXCEPT ![r] = error_response(ErrRedis)]
              /\ UNCHANGED <<trace, exchanges, calls>>
    /\ UNCHANGED <<conns, env, cfg, store, issuedCsrf, issuedPkce, nreq, setCalls,
                   getCalls, fetches>>

\* CallbackExchangeReturn with the result of the token exchange not
\* checked: the profile request is sent whatever the reply was.
CallbackExchangeReturn_unchecked(r, reply) ==
    /\ req[r].kind = "callback"
    /\ req[r].pc = "exchange"
    /\ trace' = [trace EXCEPT ![r] = Append(@, "ProfileFetch")]
    /\ req' = [req EXCEPT ![r].pc = "fetch",
                          ![r].exchange = IF reply.ok THEN "ok" ELSE "err",
                          ![r].token_type = "bearer",
                          ![r].access_token = reply.access_token]
    /\ fetches' = fetches \cup
          {[req |-> r, url |-> GITHUB_USER_API_URL,
            authorization |-> authorization_header(reply.access_token)]}
    /\ calls' = [calls EXCEPT ![r].fetch = @ + 1]
    /\ UNCHANGED <<conns, env, cfg, store, issuedCsrf, issuedPkce, nreq, resp,
                   setCalls, getCalls, exchanges>>

\* callback from the return of request_async, into
\* get_user_info_from_github up to the .await of send: an error leaves
\* through ?, a non-bearer token is rejected, a bearer token is sent to the
\* profile endpoint.
CallbackExchangeReturn(r, reply) ==
    /\ req[r].kind = "callback"
    /\ req[r].pc = "exchange"
    /\ IF ~reply.ok
       THEN /\ req' = [req EXCEPT ![r].pc = "done", ![r].exchange = "err"]
            /\ resp' = [resp EXCEPT ![r] = error_response(ErrToken)]
            /\ UNCHANGED <<trace, fetches, calls>>
       ELSE /\ trace' = [trace EXCEPT ![r] = Append(@, "ProfileFetch")]
            /\ IF is_bearer(reply.token_type)
               THEN /\ req' = [req EXCEPT
                                 ![r].pc = "fetch",
                                 ![r].exchange = "ok",
                                 ![r].token_type = reply.token_type,
                                 ![r].access_token = reply.access_token]
                    /\ fetches' = fetches \cup
                          {[req |-> r,
                            url |-> GITHUB_USER_API_URL,
                            authorization |->
                               authorization_header(reply.access_token)]}
                    /\ calls' = [calls EXCEPT ![r].fetch = @ + 1]
                    /\ UNCHANGED resp
               ELSE /\ req' = [req EXCEPT
                                 ![r].pc = "done",
                                 ![r].exchange = "ok",
                                 ![r].token_type = reply.token_type,
                                 ![r].access_token = reply.access_token,
                                 ![r].profile = "err"]
                    /\ resp' = [resp EXCEPT ![r] =
                                    error_response(ErrUnsupported)]
                    /\ UNCHANGED <<fetches, calls>>
    /\ UNCHANGED <<conns, env, cfg, store, issuedCsrf, issuedPkce, nreq, setCalls,
                   getCalls, exchanges>>

\* CallbackFetchReturn with a failed send answered by starting the
\* callback over from the verifier lookup.
CallbackFetchReturn_restarting(r, reply) ==
    /\ req[r].kind = "callback"
    /\ req[r].pc = "fetch"
    /\ IF ~reply.sent
       THEN /\ req' = [req EXCEPT ![r].pc = "get"]
            /\ UNCHANGED <<resp, trace>>
       ELSE LET e == profile_error(reply.status, reply.body = "parseable")
            IN
            /\ req' = [req EXCEPT
                         ![r].pc = "done",
                         ![r].fetch_status = reply.status,
                         ![r].fetch_body = reply.body,
                         ![r].profile = IF e = "" THEN "ok" ELSE "err"]
            /\ resp' = [resp EXCEPT ![r] = callback_result(e)]
            /\ trace' = [trace EXCEPT ![r] =
                           IF e = "" THEN Append(@, "Done") ELSE @]
    /\ UNCHANGED <<conns, env, cfg, store, issuedCsrf, issuedPkce, nreq, setCalls,
                   getCalls, exchanges, fetches, calls>>

\* get_user_info_from_github from the return of send, and the rest of
\* callback: a failed send, a status other than 200 and an unparseable
\* body each leave with their error; otherwise callback answers 200.
CallbackFetchReturn(r, reply) ==
    /\ req[r].kind = "callback"
    /\ req[r].pc = "fetch"
    /\ LET e == IF ~reply.sent THEN ErrGetUser
                ELSE profile_error(reply.status, reply.body = "parseable")
       IN
         /\ req' = [req EXCEPT
                      ![r].pc = "done",
                      ![r].fetch_status = reply.status,
                      ![r].fetch_body = reply.body,
                      ![r].profile = IF e = "" THEN "ok" ELSE "err"]
         /\ resp' = [resp EXCEPT ![r] = callback_result(e)]
         /\ trace' = [trace EXCEPT ![r] =
                        IF e = "" THEN Append(@, "Done") ELSE @]
    /\ UNCHANGED <<conns, env, cfg, store, issuedCsrf, issuedPkce, nreq, setCalls,
                   getCalls, exchanges, fetches, calls>>

---------------------------------------------------------------------------

Next ==
    \/ github_config
    \/ \E path \in RequestPaths : NotFound(path)
    \/ AuthBegin
    \/ \E r \in ReqIds, ok \in BOOLEAN : AuthSetReturn(r, ok)
    \/ \E state \in StateTokens, code \in AuthCodes :
          CallbackBegin(state, code)
    \/ \E r \in ReqIds, reachable \in BOOLEAN :
          CallbackGetReturn(r, reachable)
    \/ \E r \in ReqIds, reply \in ExchangeReplies :
          CallbackExchangeReturn(r, reply)
    \/ \E r \in ReqIds, reply \in FetchReplies :
          CallbackFetchReturn(r, reply)

Spec == Init /\ [][Next]_vars

\* The return of whichever external call callback request r is waiting on.
CallbackReturns(r) ==
    \/ \E reachable \in BOOLEAN : CallbackGetReturn(r, reachable)
    \/ \E reply \in ExchangeReplies : CallbackExchangeReturn(r, reply)
    \/ \E reply \in FetchReplies : CallbackFetchReturn(r, reply)

\* Spec with every external call of a callback request returning
\* eventually: the store read, the token exchange and the profile fetch.
FairSpec ==
    Spec /\ \A r \in ReqIds : WF_vars(CallbackReturns(r))

---------------------------------------------------------------------------
(* get_conn (src/database/mod.rs) *)

oauthVars == <<env, cfg, store, issuedCsrf, issuedPkce, nreq, req, resp,
               trace, setCalls, getCalls, exchanges, fetches, calls>>

\* The connections of the pool that are checked out: those handed to a
\* blocking task or a caller and not dropped yet.
CheckedOut ==
    {c \in Callers : conns[c].checkout = "ok" /\ conns[c].pc # "dropped"}

\* get_conn_result with the second ? left out: whatever the checkout
\* returned is passed on as the success of get_conn.
get_conn_result_one_question_mark(block, checkout) ==
    IF block # "completed" THEN [ok |-> FALSE, error |-> ErrBlocking]
    ELSE [ok |-> TRUE, error |-> ""]

\* Ok(web::block(..).await??): the first ? returns the failure of the
\* blocking task, the second ? the failure of pool.get(), and only the
\* connection is wrapped in Ok.
get_conn_result(block, checkout) ==
    IF block # "completed" THEN [ok |-> FALSE, error |-> ErrBlocking]
    ELSE IF checkout # "ok" THEN [ok |-> FALSE, error |-> ErrPool]
    ELSE [ok |-> TRUE, error |-> ""]

\* get_conn up to the .await: the closure is handed to the blocking pool.
get_conn_call(c) ==
    /\ conns[c].pc = "none"
    /\ conns' = [conns EXCEPT ![c].pc = "blocking"]
    /\ UNCHANGED oauthVars

\* The closure runs pool.get() to its end: it takes a connection, which
\* needs one that is not checked out, or fails (pool exhausted until the
\* timeout, or no connection could be established).
block_runs(c, got) ==
    /\ conns[c].pc = "blocking"
    /\ got => Cardinality(CheckedOut) < PoolSize
    /\ conns' = [conns EXCEPT ![c].pc = "joined",
                              ![c].block = "completed",
                              ![c].checkout = IF got THEN "ok" ELSE "err"]
    /\ UNCHANGED oauthVars

\* The blocking task ends without running the closure to its end
\* (cancelled or panicked): web::block yields a BlockingError.
block_fails(c) ==
    /\ conns[c].pc = "blocking"
    /\ conns' = [conns EXCEPT ![c].pc = "joined", ![c].block = "failed"]
    /\ UNCHANGED oauthVars

\* get_conn from the return of the .await: the two ? and the Ok.
get_conn_return(c) ==
    /\ conns[c].pc = "joined"
    /\ LET res == get_conn_result(conns[c].block, conns[c].checkout) IN
         conns' = [conns EXCEPT ![c].pc = "returned",
                                ![c].ok = res.ok,
                                ![c].error = res.error]
    /\ UNCHANGED oauthVars

\* The caller drops the connection it got: it goes back to the pool.
drop_conn(c) ==
    /\ conns[c].pc = "returned"
    /\ conns[c].checkout = "ok"
    /\ conns' = [conns EXCEPT ![c].pc = "dropped"]
    /\ UNCHANGED oauthVars

NextConn ==
    \/ \E c \in Callers : get_conn_call(c)
    \/ \E c \in Callers, got \in BOOLEAN : block_runs(c, got)
    \/ \E c \in Callers : block_fails(c)
    \/ \E c \in Callers : get_conn_return(c)
    \/ \E c \in Callers : drop_conn(c)

\* The callers of get_conn on their own, with no OAuth request served.
SpecConn == Init /\ [][NextConn]_vars

TypeOK ==
    /\ cfg.phase \in {"init", "returned", "panicked"}
    /\ nreq \in 0..MaxReqs
    /\ \A k \in StateTokens : store[k] \in PkceVerifiers \cup {Nil}

---------------------------------------------------------------------------
(* Properties *)

Callbacks == {r \in ReqIds : req[r].kind = "callback"}
Auths == {r \in ReqIds : req[r].kind = "auth"}
ExchangesOf(r) == {x \in exchanges : x.req = r}
FetchesOf(r) == {x \in fetches : x.req = r}

\* C1: a callback whose state token has no entry in the store when the
\* lookup returns ends, in that very step, with the lookup error and has
\* issued neither a token-exchange nor a profile request; and a callback
\* whose lookup failed for any reason (store unreachable included) never
\* issues either request.
C1_UnknownStateFailsAtLookup ==
    /\ [][\A r \in ReqIds :
            (/\ req[r].kind = "callback"
             /\ req[r].pc = "get"
             /\ store[req[r].state] = Nil
             /\ req'[r] # req[r])
            => (/\ req'[r].pc = "done"
                /\ resp'[r].status # "200"
                /\ resp'[r].error = ErrRedis
                /\ {x \in exchanges' : x.req = r} = {}
                /\ {x \in fetches' : x.req = r} = {})]_vars
    /\ [](\A r \in Callbacks :
            req[r].lookup = "not_found"
            => (/\ resp[r].error = ErrRedis
                /\ resp[r].status # "200"
                /\ ExchangesOf(r) = {} /\ calls[r].exchange = 0
                /\ FetchesOf(r) = {} /\ calls[r].fetch = 0))

\* A callback carrying a token that has no entry has been answered.
C1_Witness ==
    \E r \in Callbacks :
        /\ req[r].pc = "done"
        /\ store[req[r].state] = Nil
        /\ resp[r].error = ErrRedis

\* C2: every PKCE verifier is supplied to at most one token-exchange
\* request.
C2_VerifierUsedOnce ==
    \A v \in PkceVerifiers :
        Cardinality({x \in exchanges : x.verifier = v}) <= 1

\* C3: once the SET of an auth request succeeded, a lookup with the CSRF
\* token of that request returns the verifier of that request, and a lookup
\* with any other token does not return it.
C3_TokenMapsToItsVerifier ==
    \A r \in Auths :
        req[r].set = "ok"
        => /\ redis_get(store, req[r].state, TRUE) =
                 [ok |-> TRUE, value |-> req[r].verifier]
           /\ \A k \in StateTokens \ {req[r].state} :
                 redis_get(store, k, TRUE).value # req[r].verifier

\* Two auth requests have both written their pair.
C3_Witness ==
    \E r1, r2 \in Auths :
        /\ r1 # r2
        /\ req[r1].set = "ok"
        /\ req[r2].set = "ok"

\* The states of callback handling, in the order of the state machine.
CallbackStates ==
    <<"Start", "VerifierLookup", "TokenExchange", "ProfileFetch", "Done">>

IsPrefix(a, b) == Len(a) <= Len(b) /\ a = SubSeq(b, 1, Len(a))
Entered(r, st) == \E i \in 1..Len(trace[r]) : trace[r][i] = st

\* C4: the states a callback request has entered are an initial part of
\* Start, VerifierLookup, TokenExchange, ProfileFetch, Done; the token
\* exchange is entered and issued only after the lookup returned found, the
\* profile fetch is entered and issued only after the token exchange
\* returned ok, and Done is entered (and 200 answered) only after the
\* profile fetch returned ok.
C4_CallbackStateOrder ==
    \A r \in Callbacks :
        /\ IsPrefix(trace[r], CallbackStates)
        /\ Len(trace[r]) >= 2
        /\ (Entered(r, "TokenExchange") \/ ExchangesOf(r) # {})
              => req[r].lookup = "found"
        /\ (Entered(r, "ProfileFetch") \/ FetchesOf(r) # {})
              => (req[r].lookup = "found" /\ req[r].exchange = "ok")
        /\ (Entered(r, "Done") \/ resp[r].status = "200")
              => (/\ req[r].lookup = "found"
                  /\ req[r].exchange = "ok"
                  /\ req[r].profile = "ok"
                  /\ trace[r] = CallbackStates)

\* A callback went through all five states.
C4_Witness ==
    \E r \in Callbacks : trace[r] = CallbackStates /\ req[r].pc = "done"

\* The three steps of callback request r all succeeded.
AllStepsSucceeded(r) ==
    /\ req[r].lookup = "found"
    /\ req[r].exchange = "ok"
    /\ req[r].profile = "ok"

\* C5: an answered callback request has status 200 exactly when the
\* verifier lookup, the token exchange and the profile fetch all succeeded,
\* and has an error response carrying the error otherwise.
C5_OkIffAllStepsSucceeded ==
    \A r \in Callbacks :
        req[r].pc = "done"
        => /\ resp[r].status = "200" <=> AllStepsSucceeded(r)
           /\ ~AllStepsSucceeded(r)
                => (resp[r].status = "error" /\ resp[r].error # "")

\* One callback was answered 200 and another failed at the profile fetch.
C5_Witness ==
    \E r1, r2 \in Callbacks :
        /\ req[r1].pc = "done" /\ resp[r1].status = "200"
        /\ req[r2].pc = "done" /\ req[r2].exchange = "ok"
        /\ req[r2].profile = "err"

\* C6: a callback whose token exchange returned a token of a type other
\* than bearer is answered with the unsupported-token-type error and no
\* request to the profile endpoint is issued for it.
C6_NonBearerRejectedBeforeFetch ==
    \A r \in Callbacks :
        (req[r].exchange = "ok" /\ req[r].token_type # "bearer")
        => /\ FetchesOf(r) = {}
           /\ calls[r].fetch = 0
           /\ req[r].pc = "done"
           /\ resp[r] = error_response(ErrUnsupported)

\* A token exchange returned a MAC token.
C6_Witness ==
    \E r \in Callbacks :
        req[r].exchange = "ok" /\ req[r].token_type = "mac"

\* C7: for a bearer token whose profile request got a response, status 200
\* with a parseable body yields the profile (the callback answers 200),
\* status 401 yields Authentication, any other status yields the generic
\* failure, and status 200 with an unparseable body yields the parse
\* failure, which differs from the generic failure.
C7_ProfileResultByStatus ==
    \A r \in Callbacks :
        (/\ req[r].pc = "done"
         /\ req[r].token_type = "bearer"
         /\ req[r].fetch_status # 0)
        => /\ (req[r].fetch_status = 200 /\ req[r].fetch_body = "parseable")
                => (req[r].profile = "ok" /\ resp[r] = ok_response)
           /\ (req[r].fetch_status = 401)
                => (resp[r].error = ErrAuthentication
                    /\ resp[r].error # ErrGetUser)
           /\ (req[r].fetch_status \notin {200, 401})
                => resp[r].error = ErrGetUser
           /\ (req[r].fetch_status = 200 /\ req[r].fetch_body = "malformed")
                => (resp[r].error = ErrParseUser
                    /\ resp[r].error # ErrGetUser)

\* Profile responses with status 401 and with an unparseable body under
\* status 200 have both been handled.
C7_Witness ==
    \E r1, r2 \in Callbacks :
        /\ req[r1].pc = "done" /\ req[r1].fetch_status = 401
        /\ req[r2].pc = "done" /\ req[r2].fetch_status = 200
        /\ req[r2].fetch_body = "malformed"

C9_StoreFailureSwallowed ==
    \A r \in Auths :
        (req[r].pc = "done" /\ req[r].set = "err")
        => /\ resp[r] = see_other_response(req[r].url, req[r].state)
           /\ resp[r].status = "303" /\ resp[r].error = ""
           /\ \A c \in Callbacks :
                (c > r /\ req[c].state = req[r].state /\ req[c].pc # "get")
                => (/\ req[c].lookup = "not_found"
                    /\ resp[c].error = ErrRedis
                    /\ ExchangesOf(c) = {})

\* A callback carrying the token of an auth request whose SET failed has
\* been answered.
C9_Witness ==
    \E r \in Auths, c \in Callbacks :
        /\ req[r].pc = "done" /\ req[r].set = "err"
        /\ c > r /\ req[c].state = req[r].state /\ req[c].pc = "done"

\* C10: when GITHUB_CLIENT_ID or GITHUB_CLIENT_SECRET is missing,
\* github_config returns without panicking and with no route registered,
\* and every request to the auth or callback path is answered 404; routes
\* are registered only when both are present, and then both routes are.
C10_MissingCredentialsNoRoutes ==
    /\ (cfg.phase # "init" /\ (~env.client_id \/ ~env.client_secret))
         => /\ cfg.phase = "returned"
            /\ cfg.routes = {}
            /\ \A r \in 1..nreq : resp[r] = not_found_response
    /\ cfg.routes # {}
         => /\ env.client_id /\ env.client_secret
            /\ cfg.routes = {AUTH_ROUTE, CALLBACK_ROUTE}
    /\ (cfg.phase = "returned" /\ env.client_id /\ env.client_secret)
         => cfg.routes = {AUTH_ROUTE, CALLBACK_ROUTE}

\* With one credential missing, a request has been answered 404.
C10_Witness ==
    /\ env.client_id /\ ~env.client_secret
    /\ cfg.phase = "returned"
    /\ \E r \in ReqIds : resp[r].status = "404"

\* C11: in every interleaving, a store write changes only the key of the
\* auth request that issued it and sets it to that request's verifier, an
\* entry once written is never overwritten or changed, and a callback whose
\* lookup found a verifier holds the verifier of the one auth request that
\* generated its state token.
C11_AttemptsIndependent ==
    /\ [][\A k \in StateTokens :
            /\ store[k] # Nil => store'[k] = store[k]
            /\ store'[k] # store[k]
                 => /\ \E r \in Auths :
                         /\ req[r].pc = "set"
                         /\ req[r].state = k
                         /\ store'[k] = req[r].verifier
                    /\ \A k2 \in StateTokens \ {k} :
                         store'[k2] = store[k2]]_vars
    /\ [](\A c \in Callbacks :
            req[c].lookup = "found"
            => /\ \E r \in Auths :
                    /\ req[r].state = req[c].state
                    /\ req[r].set = "ok"
                    /\ req[r].verifier = req[c].verifier
               /\ \A r \in Auths :
                    req[r].verifier = req[c].verifier
                    => req[r].state = req[c].state)

\* A callback found the verifier of the first attempt while the SET of a
\* second attempt, begun before the callback, was still in flight.
C11_Witness ==
    \E r1, r2 \in Auths, c \in Callbacks :
        /\ r1 < r2 /\ r2 < c
        /\ req[r1].set = "ok"
        /\ req[r2].pc = "set"
        /\ req[c].state = req[r1].state
        /\ req[c].lookup = "found"
        /\ req[c].verifier = req[r1].verifier

\* C12: an auth request issues the store write at most once and nothing
\* else; a callback request issues the store read, the token-exchange call
\* and the profile-fetch call at most once each, whether the call succeeded
\* or failed, and a finished request has issued exactly the calls of the
\* steps it went through.
C12_NoRetries ==
    \A r \in ReqIds :
        /\ calls[r].set <= 1 /\ calls[r].get <= 1
        /\ calls[r].exchange <= 1 /\ calls[r].fetch <= 1
        /\ Cardinality({x \in setCalls : x.req = r}) = calls[r].set
        /\ Cardinality({x \in getCalls : x.req = r}) = calls[r].get
        /\ Cardinality(ExchangesOf(r)) = calls[r].exchange
        /\ Cardinality(FetchesOf(r)) = calls[r].fetch
        /\ req[r].kind = "auth"
             => (calls[r].set = 1 /\ calls[r].get = 0
                 /\ calls[r].exchange = 0 /\ calls[r].fetch = 0)
        /\ req[r].kind = "callback"
             => (calls[r].set = 0 /\ calls[r].get = 1)
        /\ (req[r].pc = "done" /\ req[r].set = "err") => calls[r].set = 1
        /\ (req[r].pc = "done" /\ req[r].lookup = "not_found")
             => calls[r].get = 1
        /\ (req[r].pc = "done" /\ req[r].exchange = "err")
             => calls[r].exchange = 1
        /\ (req[r].pc = "done" /\ req[r].fetch_body # ""
                /\ req[r].profile = "err")
             => calls[r].fetch = 1

\* An auth request whose SET failed and a callback whose profile request
\* was answered with an error have both finished.
C12_Witness ==
    \E r \in Auths, c \in Callbacks :
        /\ req[r].pc = "done" /\ req[r].set = "err"
        /\ req[c].pc = "done" /\ req[c].profile = "err"
        /\ calls[c].fetch = 1

\* C13: no step of a callback request changes the store or issues a store
\* write, on the success path or on any failure path; no step of any
\* request removes an entry; and the store never holds anything but the
\* verifiers written by auth requests (no access token, no profile).
C13_CallbackLeavesStoreUnchanged ==
    /\ [][/\ (\E r \in ReqIds :
                 req'[r] # req[r] /\ req'[r].kind = "callback")
              => (store' = store /\ setCalls' = setCalls)
          /\ \A k \in StateTokens : store[k] # Nil => store'[k] # Nil]_vars
    /\ [](/\ (\A k \in StateTokens :
               store[k] # Nil
               => (\E r \in Auths : /\ req[r].state = k
                                    /\ req[r].set = "ok"
                                    /\ store[k] = req[r].verifier))
           /\ (\A r \in Auths :
                req[r].set = "ok" => store[req[r].state] = req[r].verifier)
           /\ (\A c \in Callbacks : calls[c].set = 0))

\* One callback was answered 200 and another with an error, both for a
\* token whose entry is still in the store.
C13_Witness ==
    \E c1, c2 \in Callbacks :
        /\ req[c1].pc = "done" /\ resp[c1].status = "200"
        /\ req[c2].pc = "done" /\ resp[c2].status = "error"
        /\ req[c2].lookup = "found"
        /\ store[req[c1].state] # Nil
        /\ store[req[c2].state] # Nil

\* C16: the response of an auth request is produced in the step in which
\* its SET returns (with either result) and not before, so while the SET of
\* a request is pending there is no response carrying its token, and once
\* the response exists the write has succeeded or failed for good.
C16_WriteCompletesBeforeRedirect ==
    /\ [][\A r \in ReqIds :
            (req'[r].kind = "auth" /\ resp[r] = NoResp /\ resp'[r] # NoResp)
            => (/\ req[r].pc = "set"
                /\ req'[r].pc = "done"
                /\ req'[r].set \in {"ok", "err"})]_vars
    /\ [](\A r \in Auths :
            /\ req[r].pc = "set" => (resp[r] = NoResp /\ req[r].set = "")
            /\ resp[r] # NoResp
                 => (/\ req[r].pc = "done"
                     /\ req[r].set \in {"ok", "err"}
                     /\ req[r].set = "ok"
                           => store[resp[r].csrf] = req[r].verifier
                     /\ req[r].set = "err" => store[resp[r].csrf] = Nil))

\* A callback carrying the token of an answered auth request is running
\* its lookup.
C16_Witness ==
    \E r \in Auths, c \in Callbacks :
        /\ resp[r].status = "303"
        /\ req[c].state = resp[r].csrf
        /\ req[c].pc = "get"

\* C17: once the routes are registered, the path of the redirect URI the
\* provider client is configured with is the path the callback handler is
\* registered at, and every request made to the redirect URI is handled by
\* the callback handler.
C17_RedirectReachesCallback ==
    cfg.routes # {}
    => /\ url_path(redirect_url) = CALLBACK_ROUTE
       /\ url_path(redirect_url) \in cfg.routes
       /\ \A r \in ReqIds :
            req[r].path = url_path(redirect_url)
            => req[r].kind = "callback"

\* The position of a handler, as the number of awaits behind it.
Rank(pc) ==
    CASE pc = "none" -> 0
      [] pc \in {"get", "set"} -> 1
      [] pc = "exchange" -> 2
      [] pc = "fetch" -> 3
      [] pc = "done" -> 4

\* The terminal states callback request c is in: Done or the error branch
\* of a step.
TerminalStatesOf(c) ==
    {t \in {"Done", "lookup_err", "exchange_err", "profile_err"} :
        \/ t = "Done" /\ resp[c].status = "200"
        \/ t = "lookup_err" /\ req[c].lookup = "not_found"
        \/ t = "exchange_err" /\ req[c].exchange = "err"
        \/ t = "profile_err" /\ req[c].profile = "err"}

\* C15: when every external call eventually returns, every callback
\* request eventually finishes (time and again all callbacks received so
\* far have finished, and a finished one stays so); a finished callback is
\* in exactly one terminal state, Done or the error branch of one of the
\* three steps, and answered accordingly; and every step of a request moves
\* it forward, never back to an earlier position.
C15_CallbackTerminates ==
    /\ []<>(\A c \in Callbacks : req[c].pc = "done")
    /\ [](\A c \in Callbacks :
            /\ req[c].pc = "done"
                 => /\ Cardinality(TerminalStatesOf(c)) = 1
                    /\ resp[c].status \in {"200", "error"}
            /\ req[c].pc # "done"
                 => (TerminalStatesOf(c) = {} /\ resp[c] = NoResp))
    /\ [][\A r \in ReqIds :
            req'[r] # req[r] => Rank(req'[r].pc) > Rank(req[r].pc)]_vars

\* Callbacks have finished in Done and in the error branch of the profile
\* fetch.
C15_Witness ==
    \E c1, c2 \in Callbacks :
        /\ req[c1].pc = "done" /\ TerminalStatesOf(c1) = {"Done"}
        /\ req[c2].pc = "done" /\ TerminalStatesOf(c2) = {"profile_err"}

\* C14: a call of get_conn that returned yields a connection exactly when
\* the blocking task ran to completion and the checkout inside it
\* succeeded; a failed checkout is returned as the pool error and a failed
\* blocking task as the blocking error, neither as a connection; and no
\* more connections are out than the pool has.
C14_ConnIffBlockAndCheckoutOk ==
    /\ Cardinality(CheckedOut) <= PoolSize
    /\ \A c \in Callers :
         conns[c].pc \in {"returned", "dropped"}
         => /\ conns[c].ok
                 <=> (conns[c].block = "completed"
                      /\ conns[c].checkout = "ok")
            /\ conns[c].checkout = "err"
                 => (~conns[c].ok /\ conns[c].error = ErrPool)
            /\ conns[c].block = "failed"
                 => (~conns[c].ok /\ conns[c].error = ErrBlocking)
            /\ conns[c].ok => conns[c].error = ""

\* One call returned a connection, one a pool error and one a
\* blocking-task failure.
C14_Witness ==
    \E c1, c2, c3 \in Callers :
        /\ conns[c1].pc = "returned" /\ conns[c1].ok
        /\ conns[c2].pc = "returned" /\ conns[c2].error = ErrPool
        /\ conns[c3].pc = "returned" /\ conns[c3].error = ErrBlocking

====
